---- MODULE Spec2Model ----
(***************************************************************************)
(* Model of the Gradient class of src/ColorGradient.h: a colour gradient   *)
(* over a uint16_t range [m_min, m_max] with a vector of rgb stops, and    *)
(* the single query getRgb(value).                                         *)
(*                                                                         *)
(* Arithmetic.  getRgb and interpolate compute in IEEE-754 binary32        *)
(* (float) and binary64 (double).  A float is modelled exactly, as a       *)
(* record [m, e] standing for the real number m * 2^e, kept in canonical   *)
(* form (m odd, or m = 0 and e = 0); every float operation of the source   *)
(* is the exact real operation followed by round-to-nearest-even to        *)
(* FLT_MANT_DIG significant bits, each operation rounded on its own        *)
(* (FLT_EVAL_METHOD 0, no contraction).  Exponent overflow and underflow   *)
(* do not arise for uint16_t operands and are not modelled.  The double    *)
(* operations of interpolate are exact on the operands reached here, which *)
(* DoubleOpsExact states and the model checker verifies.                   *)
(***************************************************************************)
EXTENDS Integers, Sequences, FiniteSets, TLC

(***************************************************************************)
(* Bounds of the model.                                                    *)
(***************************************************************************)
MaxValue == 30
MaxStops == 12

(***************************************************************************)
(* Integer helpers.                                                        *)
(***************************************************************************)
RECURSIVE Pow2(_)
Pow2(n) == IF n <= 0 THEN 1 ELSE 2 * Pow2(n - 1)

RECURSIVE BitLen(_)
BitLen(n) == IF n = 0 THEN 0 ELSE 1 + BitLen(n \div 2)

(***************************************************************************)
(* The float type.                                                         *)
(***************************************************************************)
FLT_MANT_DIG == 24

RECURSIVE Norm(_, _)
Norm(m, e) ==
    IF m = 0 THEN [m |-> 0, e |-> 0]
    ELSE IF m % 2 = 0 THEN Norm(m \div 2, e + 1)
    ELSE [m |-> m, e |-> e]

FNeg(a) == [m |-> 0 - a.m, e |-> a.e]

\* the float nearest to n * 2^e (ties to even), for a natural n < 2^31
RoundNat(n, e) ==
    LET len == BitLen(n) IN
    IF len <= FLT_MANT_DIG THEN Norm(n, e)
    ELSE LET s    == len - FLT_MANT_DIG
             q    == n \div Pow2(s)
             r    == n % Pow2(s)
             half == Pow2(s - 1)
             up   == r > half \/ (r = half /\ q % 2 = 1)
         IN  Norm(IF up THEN q + 1 ELSE q, e + s)

RoundInt(n, e) == IF n >= 0 THEN RoundNat(n, e) ELSE FNeg(RoundNat(0 - n, e))

\* conversion of an integer (uint16_t, int, size_t below 2^24) to float: exact
IntToFloat(n) == Norm(n, 0)

\* (int) f : truncation toward zero, for f >= 0
FloatToInt(f) ==
    IF f.e >= 0 THEN f.m * Pow2(f.e)
    ELSE IF 0 - f.e >= FLT_MANT_DIG THEN 0
    ELSE f.m \div Pow2(0 - f.e)

\* long division: the quotient bits of n / d, one at a time, until the
\* quotient q has FLT_MANT_DIG bits; the value is (q + r/d) * 2^(-s)
RECURSIVE DivLoop(_, _, _, _)
DivLoop(q, r, d, s) ==
    IF q >= Pow2(FLT_MANT_DIG - 1) THEN <<q, r, s>>
    ELSE LET r2 == 2 * r
             b  == IF r2 >= d THEN 1 ELSE 0
         IN  DivLoop(2 * q + b, r2 - b * d, d, s + 1)

\* float / float, divisor not zero
FDiv(a, b) ==
    IF a.m = 0 THEN [m |-> 0, e |-> 0]
    ELSE LET n   == IF a.m < 0 THEN 0 - a.m ELSE a.m
             d   == IF b.m < 0 THEN 0 - b.m ELSE b.m
             st  == DivLoop(n \div d, n % d, d, 0)
             q   == st[1]
             r   == st[2]
             up  == 2 * r > d \/ (2 * r = d /\ q % 2 = 1)
             res == Norm(IF up THEN q + 1 ELSE q, a.e - b.e - st[3])
         IN  IF (a.m < 0) = (b.m < 0) THEN res ELSE FNeg(res)

\* the exact product a.m * c of a mantissa and a natural c < 2^12, as the
\* pair <<hi, lo>> standing for hi * 2^12 + lo (the product needs 36 bits)
WideMul(m, c) ==
    LET mh == m \div 4096
        ml == m % 4096
    IN  <<mh * c + ((ml * c) \div 4096), (ml * c) % 4096>>

\* the float nearest to (w[1] * 2^12 + w[2]) * 2^e, in the same wide form
\* with the exponent e kept: <<hi, lo>> of the rounded multiple of 2^e
WideRound(w) ==
    LET len == BitLen(w[1]) + 12 IN
    IF len <= FLT_MANT_DIG THEN w
    ELSE LET s    == len - FLT_MANT_DIG
             q    == w[1] * Pow2(12 - s) + (w[2] \div Pow2(s))
             r    == w[2] % Pow2(s)
             half == Pow2(s - 1)
             up   == r > half \/ (r = half /\ q % 2 = 1)
             q1   == IF up THEN q + 1 ELSE q
         IN  <<q1 \div Pow2(12 - s), (q1 % Pow2(12 - s)) * Pow2(s)>>

\* float * float where the second operand is a small integer value
\* (an int below 2^12 converted to float), first operand >= 0
FMul(a, b) == RoundInt(a.m * b.m, a.e + b.e)

\* float - float
FSub(a, b) ==
    LET e == IF a.e < b.e THEN a.e ELSE b.e
    IN  RoundInt(a.m * Pow2(a.e - e) - b.m * Pow2(b.e - e), e)

FLeqZero(f) == f.m <= 0
FGeqOne(f)  == f.m > 0 /\ (f.e >= 0 \/ (0 - f.e < FLT_MANT_DIG /\ f.m >= Pow2(0 - f.e)))

(***************************************************************************)
(* Colours.                                                                *)
(***************************************************************************)
Rgb(r, g, b) == [red |-> r, green |-> g, blue |-> b]

INVALID_COLOR == Rgb(0, 0, 0)

(***************************************************************************)
(* interpolate, one channel: (uint8_t)((1.0 - t)*c1 + t*c2) for 0 < t < 1. *)
(* t*c2 is a float product (float times promoted int), rounded to float;   *)
(* (1.0 - t)*c1 and the sum are double operations, exact here.  With       *)
(* t = m * 2^(-E) all terms are counted in units of 2^(-E):                *)
(*   c1 * 2^E  -  c1 * m  +  RN(c2 * m),                                   *)
(* and the conversion to uint8_t takes the integer part.                   *)
(***************************************************************************)
BlendChannel(c1, c2, t) ==
    LET E   == 0 - t.e
        X   == WideMul(t.m, c1)
        Y   == WideRound(WideMul(t.m, c2))
        num == IF E >= 12
               THEN (Y[1] - X[1]) + ((Y[2] - X[2]) \div 4096)
               ELSE (Y[1] - X[1]) * 4096 + (Y[2] - X[2])
        sh  == IF E >= 12 THEN E - 12 ELSE E
        fl  == IF sh >= 30 THEN (IF num >= 0 THEN 0 ELSE 0 - 1)
               ELSE num \div Pow2(sh)
    IN  c1 + fl

interpolate(c1, c2, normalized_value) ==
    IF FLeqZero(normalized_value) THEN c1
    ELSE IF FGeqOne(normalized_value) THEN c2
    ELSE Rgb(BlendChannel(c1.red, c2.red, normalized_value),
             BlendChannel(c1.green, c2.green, normalized_value),
             BlendChannel(c1.blue, c2.blue, normalized_value))

(***************************************************************************)
(* The bin arithmetic of getRgb, for a configuration with min < max and    *)
(* k >= 2 stops and min <= value <= max.                                   *)
(***************************************************************************)
BinOf(min, max, k, value) ==
    LET range == (max - min) % 65536
        v     == (value - min) % 65536
        step  == FDiv(IntToFloat(range), IntToFloat(k - 1))
    IN  FloatToInt(FDiv(IntToFloat(v), step))

NormalizedOf(min, max, k, value) ==
    LET range == (max - min) % 65536
        v     == (value - min) % 65536
        step  == FDiv(IntToFloat(range), IntToFloat(k - 1))
        bin   == FloatToInt(FDiv(IntToFloat(v), step))
    IN  FDiv(FSub(IntToFloat(v), FMul(step, IntToFloat(bin))), step)

(***************************************************************************)
(* Inputs of the model: colours, stop lists, ranges and the arguments of   *)
(* initialize and of the parameterized constructor.                        *)
(***************************************************************************)
Grey   == Rgb(10, 20, 30)
White  == Rgb(255, 255, 255)
Red    == Rgb(200, 0, 0)
Blue   == Rgb(0, 0, 200)
Colors == {INVALID_COLOR, Grey, White, Red, Blue}

Values == 0..MaxValue

\* k stops of one colour, and k stops alternating black and white
Flat(k) == [i \in 1..k |-> Grey]
Ramp(k) == [i \in 1..k |-> IF i % 2 = 1 THEN INVALID_COLOR ELSE White]
StopLists == {Ramp(k) : k \in 0..MaxStops} \cup {Flat(2), Flat(MaxStops)}

Ranges == {r \in {<<0, 1>>, <<1, 4>>, <<1, 14>>, <<0, 29>>, <<2, 2>>, <<3, 1>>} :
             r[1] <= MaxValue /\ r[2] <= MaxValue}

\* an optional colour argument: given, or left to its default value
Given(c) == [given |-> TRUE, color |-> c]
Default  == [given |-> FALSE, color |-> INVALID_COLOR]
OutlierArgs == {<<Default, Default>>, <<Given(Red), Given(Blue)>>}

Args == {[min |-> r[1], max |-> r[2], stops |-> s,
          minOutlierColor |-> o[1], maxOutlierColor |-> o[2]] :
            r \in Ranges, s \in StopLists, o \in OutlierArgs}

NoArgs == [min |-> 0, max |-> 0, stops |-> <<>>,
           minOutlierColor |-> Default, maxOutlierColor |-> Default]

\* what a read of indeterminate or out-of-bounds memory may yield
GarbageValues == {0, MaxValue}
GarbageColors == Colors

(***************************************************************************)
(* rgb::operator==(rgb lhr) returns this == &lhr.  lhr is passed by value: *)
(* it is a fresh object, whose address is the address of no other object.  *)
(* Objects are named by their address.                                     *)
(***************************************************************************)
AddressOfParameter == "lhr"

rgb_operator_eq_negated(this, arg) == this # AddressOfParameter
rgb_operator_eq(this, arg) == this = AddressOfParameter

(***************************************************************************)
(* The outcomes of one getRgb call.  An outcome records whether the call   *)
(* returned (it may abort on undefined behaviour), the colour returned,    *)
(* and for an in-range call the bin, the normalized value and whether the  *)
(* call read m_stops past its end.                                         *)
(***************************************************************************)
ZeroFloat == [m |-> 0, e |-> 0]

Returned(kind, c) == [kind |-> kind, ret |-> TRUE, result |-> c,
                      bin |-> 0, t |-> ZeroFloat, oob |-> FALSE]
Aborted(kind, bin, t, oob) == [kind |-> kind, ret |-> FALSE, result |-> INVALID_COLOR,
                               bin |-> bin, t |-> t, oob |-> oob]

\* undefined behaviour with no result the source determines
Undefined(kind) == {Aborted(kind, 0, ZeroFloat, FALSE)} \cup
                   {Returned(kind, g) : g \in GarbageColors}

\* m_stops.front() and m_stops.back(); undefined on an empty vector
Front(kind, stops) == IF Len(stops) = 0 THEN Undefined(kind)
                      ELSE {Returned(kind, stops[1])}
Back(kind, stops)  == IF Len(stops) = 0 THEN Undefined(kind)
                      ELSE {Returned(kind, stops[Len(stops)])}

\* lines 180-189, for min < max, at least two stops and min <= value <= max
getRgbInRange(min, max, stops, value) ==
    LET k   == Len(stops)
        bin == BinOf(min, max, k, value)
        t   == NormalizedOf(min, max, k, value)
        oob == bin + 1 >= k
        c1s == IF bin < k THEN {stops[bin + 1]} ELSE GarbageColors
        c2s == IF bin + 1 < k THEN {stops[bin + 2]} ELSE GarbageColors
    IN  {[kind |-> "inRange", ret |-> TRUE, result |-> interpolate(c1, c2, t),
          bin |-> bin, t |-> t, oob |-> oob] : c1 \in c1s, c2 \in c2s}
        \cup (IF oob THEN {Aborted("inRange", bin, t, oob)} ELSE {})

InRangeQueries == {q \in Ranges \X StopLists \X Values :
                     /\ q[1][1] < q[1][2] /\ Len(q[2]) >= 2
                     /\ q[1][1] <= q[3] /\ q[3] <= q[1][2]}

\* getRgbInRange, evaluated once for every in-range query of the model
\* (@@ makes the function an explicit table)
InRangeTable == [q \in InRangeQueries |-> getRgbInRange(q[1][1], q[1][2], q[2], q[3])]
                    @@ [q \in {} |-> {}]

getRgb(min, max, stops, minOutlierColor, maxOutlierColor, value) ==
    IF value < min
    THEN IF rgb_operator_eq("m_minOutlierColor", "INVALID_COLOR")
         THEN Front("minOutlier", stops)
         ELSE {Returned("minOutlier", minOutlierColor)}
    ELSE IF value > max
    THEN IF rgb_operator_eq("m_maxOutlierColor", "INVALID_COLOR")
         THEN Back("maxOutlier", stops)
         ELSE {Returned("maxOutlier", maxOutlierColor)}
    ELSE IF min < max /\ Len(stops) >= 2
    THEN InRangeTable[<<<<min, max>>, stops, value>>]
    ELSE Undefined("undefined")

(***************************************************************************)
(* The state.                                                              *)
(***************************************************************************)
VARIABLES state, pc, m_min, m_max, m_stops, m_minOutlierColor, m_maxOutlierColor,
          args, via, call

fields == <<m_min, m_max, m_stops, m_minOutlierColor, m_maxOutlierColor>>
vars   == <<state, pc, m_min, m_max, m_stops, m_minOutlierColor, m_maxOutlierColor,
            args, via, call>>

NoCall == [made |-> FALSE, value |-> 0, reinit |-> FALSE,
           out |-> Returned("none", INVALID_COLOR)]

\* the assignments of initialize(min, max, stops, minOutlierColor,
\* maxOutlierColor); a defaulted colour argument has the value INVALID_COLOR
initialize(a) == [m_min |-> a.min, m_max |-> a.max, m_stops |-> a.stops,
                  m_minOutlierColor |-> a.minOutlierColor.color,
                  m_maxOutlierColor |-> a.maxOutlierColor.color]

FieldsRecord == [m_min |-> m_min, m_max |-> m_max, m_stops |-> m_stops,
                 m_minOutlierColor |-> m_minOutlierColor,
                 m_maxOutlierColor |-> m_maxOutlierColor]

\* Gradient(): no member is initialized but m_stops, which is empty
DefaultConstructed ==
    /\ state = "Uninitialized"
    /\ m_min \in GarbageValues /\ m_max \in GarbageValues
    /\ m_stops = <<>>
    /\ m_minOutlierColor \in {INVALID_COLOR, Grey}
    /\ m_maxOutlierColor \in {INVALID_COLOR, Grey}
    /\ args = NoArgs /\ via = "default"

\* Gradient(min, max, stops, minOutlierColor, maxOutlierColor)
Constructed(a) ==
    /\ state = "Ready"
    /\ m_min = initialize(a).m_min
    /\ m_max = initialize(a).m_max
    /\ m_stops = initialize(a).m_stops
    /\ m_minOutlierColor = initialize(a).m_minOutlierColor
    /\ m_maxOutlierColor = initialize(a).m_maxOutlierColor
    /\ args = a /\ via = "constructor"

Init ==
    /\ pc = "idle"
    /\ call = NoCall
    /\ (DefaultConstructed \/ \E a \in Args : Constructed(a))

Initialize(a) ==
    /\ pc = "idle"
    /\ m_min' = initialize(a).m_min
    /\ m_max' = initialize(a).m_max
    /\ m_stops' = initialize(a).m_stops
    /\ m_minOutlierColor' = initialize(a).m_minOutlierColor
    /\ m_maxOutlierColor' = initialize(a).m_maxOutlierColor
    /\ state' = "Ready"
    /\ args' = a /\ via' = "initialize"
    /\ call' = IF state = "Ready" /\ a = args /\ call.made
               THEN [call EXCEPT !.reinit = TRUE] ELSE NoCall
    /\ pc' = pc

GetRgb(value) ==
    /\ pc = "idle"
    /\ state = "Ready"
    /\ \E o \in getRgb(m_min, m_max, m_stops, m_minOutlierColor, m_maxOutlierColor, value) :
         /\ call' = [made |-> TRUE, value |-> value, reinit |-> FALSE, out |-> o]
         /\ pc' = IF o.ret THEN "idle" ELSE "aborted"
    /\ UNCHANGED <<state, fields, args, via>>

Next ==
    \/ \E a \in Args : Initialize(a)
    \/ \E value \in Values : GetRgb(value)

Spec == Init /\ [][Next]_vars

(***************************************************************************)
(* Properties.  `call' is the last getRgb call made under the present      *)
(* configuration (it is forgotten when initialize changes the              *)
(* configuration, and marked reinit when initialize repeats it).           *)
(***************************************************************************)
TypeOK ==
    /\ state \in {"Uninitialized", "Ready"}
    /\ pc \in {"idle", "aborted"}
    /\ m_min \in Values /\ m_max \in Values
    /\ m_minOutlierColor \in Colors /\ m_maxOutlierColor \in Colors
    /\ call.made \in BOOLEAN /\ call.value \in Values
    /\ call.out.ret \in BOOLEAN
    /\ \A ch \in {call.out.result.red, call.out.result.green, call.out.result.blue} :
          ch \in 0..255

ValidConfig == state = "Ready" /\ m_min < m_max /\ Len(m_stops) >= 2

InRangeCall == ValidConfig /\ call.made /\ call.out.kind = "inRange"

Interior(t) == ~FLeqZero(t) /\ ~FGeqOne(t)

\* the double operations of interpolate are exact: with t = m * 2^(-E) and
\* 8-bit channels every intermediate value is a multiple of 2^(-E) below 2^8,
\* which a double holds exactly when E + 8 <= 53
DoubleOpsExact ==
    InRangeCall /\ Interior(call.out.t) => 0 - call.out.t.e + 8 <= 53

\* the bin of value under the present (valid) configuration
BinAt(value) ==
    (CHOOSE o \in InRangeTable[<<<<m_min, m_max>>, m_stops, value>>] : TRUE).bin

\* the exact blend (1-t)*c1 + t*c2 of one channel, truncated toward zero
ExactTruncChannel(c1, c2, t) ==
    LET E   == 0 - t.e
        X   == WideMul(t.m, c1)
        Y   == WideMul(t.m, c2)
        num == IF E >= 12
               THEN (Y[1] - X[1]) + ((Y[2] - X[2]) \div 4096)
               ELSE (Y[1] - X[1]) * 4096 + (Y[2] - X[2])
        sh  == IF E >= 12 THEN E - 12 ELSE E
        fl  == IF sh >= 30 THEN (IF num >= 0 THEN 0 ELSE 0 - 1)
               ELSE num \div Pow2(sh)
    IN  c1 + fl

\* C1: with min < max, at least two stops and both outlier colours left at
\* their default, getRgb returns the first stop for every value below min
\* and the last stop for every value above max.
C1_DefaultOutliersAreEndStops ==
    (ValidConfig /\ call.made
        /\ ~args.minOutlierColor.given /\ ~args.maxOutlierColor.given)
    => /\ call.value < m_min =>
            call.out.ret /\ call.out.result = m_stops[1]
       /\ call.value > m_max =>
            call.out.ret /\ call.out.result = m_stops[Len(m_stops)]

\* C2: with min < max and k >= 2 stops, every in-range call, value == max
\* included, computes a bin in 0..k-2 and never reads m_stops past its end.
C2_BinWithinStops ==
    InRangeCall =>
        /\ call.out.bin \in 0..(Len(m_stops) - 2)
        /\ ~call.out.oob

\* C3: with min < max and at least two stops, getRgb(min) is exactly the
\* first stop and getRgb(max) exactly the last stop, both as in-range values
\* returned through the t <= 0 / t >= 1 short-circuit of interpolate.
C3_BoundaryExact ==
    (ValidConfig /\ call.made /\ call.out.ret)
    => /\ call.value = m_min =>
            /\ call.out.kind = "inRange"
            /\ ~Interior(call.out.t)
            /\ call.out.result = m_stops[1]
       /\ call.value = m_max =>
            /\ call.out.kind = "inRange"
            /\ ~Interior(call.out.t)
            /\ call.out.result = m_stops[Len(m_stops)]

\* C4: with explicit outlier colours C and D, both different from
\* INVALID_COLOR, getRgb returns exactly C for every value below min and
\* exactly D for every value above max, whatever the stop list (min < max,
\* the range of a Gradient).
C4_ExplicitOutliers ==
    (state = "Ready" /\ m_min < m_max /\ call.made
        /\ args.minOutlierColor.given /\ args.minOutlierColor.color # INVALID_COLOR
        /\ args.maxOutlierColor.given /\ args.maxOutlierColor.color # INVALID_COLOR)
    => /\ call.value < m_min =>
            call.out.ret /\ call.out.result = args.minOutlierColor.color
       /\ call.value > m_max =>
            call.out.ret /\ call.out.result = args.maxOutlierColor.color

\* C4 witness: a call above max under explicit outlier colours and an empty
\* stop list has returned D.
C4_Witness ==
    /\ state = "Ready" /\ m_min < m_max /\ call.made
    /\ args.minOutlierColor = Given(Red) /\ args.maxOutlierColor = Given(Blue)
    /\ Len(m_stops) = 0
    /\ call.value > m_max
    /\ call.out.ret /\ call.out.result = Blue

\* C5: with k >= 2 stops over [min, max], the bin is a non-decreasing
\* function of value on [min, max], and the bins taken as value sweeps the
\* integers of [min, max] are exactly k-1 distinct ones.
C5_BinsMonotoneAndCounted ==
    ValidConfig =>
        /\ \A v1, v2 \in m_min..m_max : v1 <= v2 => BinAt(v1) <= BinAt(v2)
        /\ Cardinality({BinAt(v) : v \in m_min..m_max}) = Len(m_stops) - 1

\* C6: for an in-range value with 0 < t < 1, each channel of the result is
\* the exact blend (1-t)*c1 + t*c2 of the two stops of its bin, truncated
\* toward zero.
C6_TruncatedExactBlend ==
    (InRangeCall /\ call.out.ret /\ ~call.out.oob /\ Interior(call.out.t))
    => LET c1 == m_stops[call.out.bin + 1]
           c2 == m_stops[call.out.bin + 2]
           t  == call.out.t
       IN  call.out.result = Rgb(ExactTruncChannel(c1.red, c2.red, t),
                                 ExactTruncChannel(c1.green, c2.green, t),
                                 ExactTruncChannel(c1.blue, c2.blue, t))

\* C7: a getRgb call leaves every field unchanged and the Gradient Ready,
\* and two getRgb calls with the same value and no initialize in between
\* return the same colour (min < max and at least two stops).
C7_GetRgbPureAndRepeatable ==
    [][(\E value \in Values : GetRgb(value)) =>
          /\ UNCHANGED <<state, m_min, m_max, m_stops,
                         m_minOutlierColor, m_maxOutlierColor>>
          /\ state' = "Ready"
          /\ (ValidConfig /\ call.made /\ ~call.reinit /\ call'.value = call.value
                /\ call.out.ret /\ call'.out.ret)
             => call'.out.result = call.out.result]_vars

\* C8: with two stops of the same colour X and min < max, getRgb returns
\* exactly X for every value of [min, max].
C8_SameColourStops ==
    (InRangeCall /\ call.out.ret /\ Len(m_stops) = 2 /\ m_stops[1] = m_stops[2])
    => call.out.result = m_stops[1]

\* C9: with min < max and at least two stops, the normalized value t passed
\* to interpolate satisfies 0 <= t < 1 for an in-range value below max and
\* 0 <= t <= 1 for value == max.
C9_NormalizedInUnitInterval ==
    InRangeCall =>
        /\ call.out.t.m >= 0
        /\ call.value < m_max => ~FGeqOne(call.out.t)
        /\ call.value = m_max =>
              ~FGeqOne(call.out.t) \/ call.out.t = [m |-> 1, e |-> 0]

\* C10: initialize validates nothing and replaces all five fields by its
\* arguments (construction with arguments does the same as default
\* construction followed by initialize), and every later getRgb result is
\* determined by the arguments of the most recent initialize alone: two
\* calls with the same value under the same arguments (min < max, at least
\* two stops) return the same colour.
C10_LastInitializeDetermines ==
    /\ [](state = "Ready" => FieldsRecord = initialize(args))
    /\ [][((\E value \in Values : GetRgb(value))
             /\ ValidConfig /\ call.made /\ call'.value = call.value
             /\ call.out.ret /\ call'.out.ret)
          => call'.out.result = call.out.result]_vars
====
